---------------------------- MODULE Spec2Model ----------------------------
(***************************************************************************)
(* Model of exo's platform-adaptive telemetry core:                        *)
(*   - src/exo/worker/engines/mlx/availability.py : the lazily cached MLX  *)
(*     backend loader (load_mlx_backend / _build_backend);                 *)
(*   - src/exo/worker/utils/profile.py : the memory polling loop and the   *)
(*     node polling loop with their samplers.                              *)
(* SpecLoader runs the loader under concurrent callers; Spec runs the two  *)
(* polling loops as cooperative tasks; SpecNode runs the node loop alone   *)
(* against a host whose sensors are state, with the time it spends waiting.*)
(***************************************************************************)
EXTENDS Integers, Sequences, FiniteSets, TLC

(***************************************************************************)
(* Bounds of the model.                                                    *)
(***************************************************************************)
\* number of threads that may call load_mlx_backend
NumCallers == 2
\* total number of calls to load_mlx_backend in one behaviour
MaxCalls == 3
\* iterations each polling loop may start in one behaviour
MaxTicks == 2
\* seconds by which the clock of SpecNode advances in one step
TimeStep == 15
\* seconds an iteration of the node loop may be seen waiting in its try body
MaxElapsed == 45

VARIABLES
    \* ---- environment of the process
    platformName,   \* what platform.system() returns
    genMod,         \* state of module exo.worker.engines.mlx.generator.generate
    utilsMod,       \* state of module exo.worker.engines.mlx.utils_mlx
    \* ---- availability.py
    cached,         \* load_mlx_backend._cached (NoHandle: attribute not set)
    pc,             \* per caller: position inside load_mlx_backend
    built,          \* per caller: the value _build_backend() returned, not yet stored
    result,         \* per caller: outcome of its last finished call
    calls,          \* calls started
    builds,         \* invocations of _build_backend
    nextHandle,     \* SimpleNamespace objects constructed so far (object identity)
    cacheWrites,    \* assignments to load_mlx_backend._cached
    warnings,       \* logger.warning calls of load_mlx_backend
    platformFailures, \* calls that raised at lines 20-23 (platform is not darwin)
    \* ---- profile.py
    overrideEnv,    \* os.getenv("OVERRIDE_MEMORY_MB"): None or Some(string of characters)
    hostMemory,     \* bytes of memory psutil detects on the host
    hostCpuPercent, \* what psutil.cpu_percent(interval=None) returns on the host
    hostCpuCount,   \* what psutil.cpu_count(logical=True) returns on the host
    hostSensors,    \* what psutil.sensors_temperatures() does on the host
    memory_loop,    \* the task running start_polling_memory_metrics
    node_loop       \* the task running start_polling_node_metrics

envVars == <<platformName, genMod, utilsMod>>
loaderVars == <<cached, pc, built, result, calls, builds, nextHandle, cacheWrites,
                warnings, platformFailures>>
samplerVars == <<hostCpuPercent, hostCpuCount, hostSensors>>
pollVars == <<overrideEnv, hostMemory, samplerVars, memory_loop, node_loop>>
vars == <<envVars, loaderVars, pollVars>>

(***************************************************************************)
(* Environment.                                                            *)
(***************************************************************************)
Platforms == {"Darwin", "Linux"}

\* str.lower() on the platform names
Lower(s) ==
    CASE s = "Darwin" -> "darwin"
      [] s = "Linux" -> "linux"
      [] OTHER -> s

\* A module either imports with all its entry points ("ok"), cannot be
\* imported ("missing": ImportError), or imports but lacks one of the entry
\* points read from it ("no_attr").
ModStates == {"ok", "missing", "no_attr"}

(***************************************************************************)
(* availability.py                                                         *)
(***************************************************************************)
Callers == 1..NumCallers
NoHandle == 0

NoResult == [kind |-> "none", cause |-> "none", handle |-> NoHandle]

\* _build_backend as a function of what it reads: the outcome kind and, for
\* MlxUnavailableError, the exception it was raised from.
_build_backend(plat, gen, utils) ==
    IF Lower(plat) # "darwin"
      THEN [kind |-> "MlxUnavailableError", cause |-> "none"]
    ELSE IF gen = "missing" \/ utils = "missing"
      THEN [kind |-> "MlxUnavailableError", cause |-> "ImportError"]
    ELSE IF utils = "no_attr" \/ gen = "no_attr"
      THEN [kind |-> "AttributeError", cause |-> "none"]
    ELSE [kind |-> "ok", cause |-> "none"]

LoaderInit ==
    /\ cached = NoHandle
    /\ pc = [t \in Callers |-> "idle"]
    /\ built = [t \in Callers |-> NoHandle]
    /\ result = [t \in Callers |-> NoResult]
    /\ calls = 0
    /\ builds = 0
    /\ nextHandle = 0
    /\ cacheWrites = 0
    /\ warnings = 0
    /\ platformFailures = 0

\* a thread enters load_mlx_backend
Call(t) ==
    /\ pc[t] = "idle"
    /\ calls < MaxCalls
    /\ calls' = calls + 1
    /\ pc' = [pc EXCEPT ![t] = "check"]
    /\ result' = [result EXCEPT ![t] = NoResult]
    /\ UNCHANGED <<cached, built, builds, nextHandle, cacheWrites, warnings,
                   platformFailures, envVars>>

\* line 46: if not hasattr(load_mlx_backend, "_cached")
CheckCache(t) ==
    /\ pc[t] = "check"
    /\ pc' = [pc EXCEPT ![t] = IF cached = NoHandle THEN "build" ELSE "ret"]
    /\ UNCHANGED <<cached, built, result, calls, builds, nextHandle, cacheWrites,
                   warnings, platformFailures, envVars>>

\* line 48, right-hand side: _build_backend() returned a fresh SimpleNamespace
BuildOk(t) ==
    /\ nextHandle' = nextHandle + 1
    /\ built' = [built EXCEPT ![t] = nextHandle + 1]
    /\ pc' = [pc EXCEPT ![t] = "store"]
    /\ UNCHANGED <<cached, result, cacheWrites, warnings, platformFailures>>

\* BuildUnavailable with the failure memoized: the handler stores a failure
\* marker in the cache attribute before re-raising
BuildUnavailable_cached(t, out) ==
    /\ warnings' = warnings + 1
    /\ platformFailures' = platformFailures + (IF out.cause = "none" THEN 1 ELSE 0)
    /\ result' = [result EXCEPT ![t] =
                    [kind |-> out.kind, cause |-> out.cause, handle |-> NoHandle]]
    /\ pc' = [pc EXCEPT ![t] = "idle"]
    /\ cached' = -1
    /\ UNCHANGED <<built, nextHandle, cacheWrites>>

\* lines 49-51: except MlxUnavailableError: logger.warning(...); raise
BuildUnavailable(t, out) ==
    /\ warnings' = warnings + 1
    /\ platformFailures' = platformFailures + (IF out.cause = "none" THEN 1 ELSE 0)
    /\ result' = [result EXCEPT ![t] =
                    [kind |-> out.kind, cause |-> out.cause, handle |-> NoHandle]]
    /\ pc' = [pc EXCEPT ![t] = "idle"]
    /\ UNCHANGED <<cached, built, nextHandle, cacheWrites>>

\* any other exception of _build_backend passes through load_mlx_backend
BuildOtherError(t, out) ==
    /\ result' = [result EXCEPT ![t] =
                    [kind |-> out.kind, cause |-> out.cause, handle |-> NoHandle]]
    /\ pc' = [pc EXCEPT ![t] = "idle"]
    /\ UNCHANGED <<cached, built, nextHandle, cacheWrites, warnings, platformFailures>>

\* lines 47-51: the call of _build_backend and what the try block does with it
Build(t) ==
    /\ pc[t] = "build"
    /\ builds' = builds + 1
    /\ LET out == _build_backend(platformName, genMod, utilsMod)
       IN  CASE out.kind = "ok" -> BuildOk(t)
             [] out.kind = "MlxUnavailableError" -> BuildUnavailable(t, out)
             [] OTHER -> BuildOtherError(t, out)
    /\ UNCHANGED <<calls, envVars>>

\* line 48, the assignment load_mlx_backend._cached = <built>
Store(t) ==
    /\ pc[t] = "store"
    /\ cached' = built[t]
    /\ cacheWrites' = cacheWrites + 1
    /\ pc' = [pc EXCEPT ![t] = "ret"]
    /\ UNCHANGED <<built, result, calls, builds, nextHandle, warnings,
                   platformFailures, envVars>>

\* line 53: return load_mlx_backend._cached
Return(t) ==
    /\ pc[t] = "ret"
    /\ result' = [result EXCEPT ![t] =
                    [kind |-> "ok", cause |-> "none", handle |-> cached]]
    /\ pc' = [pc EXCEPT ![t] = "idle"]
    /\ UNCHANGED <<cached, built, calls, builds, nextHandle, cacheWrites, warnings,
                   platformFailures, envVars>>

\* the host answers platform.system() differently (a patched platform module)
SetPlatform(p) ==
    /\ p # platformName
    /\ platformName' = p
    /\ UNCHANGED <<genMod, utilsMod, loaderVars>>

\* the backend modules are installed, removed or replaced on disk
SetModules(g, u) ==
    /\ <<g, u>> # <<genMod, utilsMod>>
    /\ genMod' = g
    /\ utilsMod' = u
    /\ UNCHANGED <<platformName, loaderVars>>

(***************************************************************************)
(* profile.py: values                                                      *)
(***************************************************************************)
\* Python's None / a present value
None == <<>>
Some(v) == <<v>>

\* values of OVERRIDE_MEMORY_MB the process may see: unset, empty, two
\* decimal numbers and a string that is no number
OverrideValues ==
    {None, Some(<<>>), Some(<<"2">>), Some(<<"1", "2">>), Some(<<"x">>)}

HostMemories == {8 * 1048576, 16 * 1048576}

Digits == {"0", "1", "2", "3", "4", "5", "6", "7", "8", "9"}

DigitValue(c) ==
    CASE c = "0" -> 0 [] c = "1" -> 1 [] c = "2" -> 2 [] c = "3" -> 3
      [] c = "4" -> 4 [] c = "5" -> 5 [] c = "6" -> 6 [] c = "7" -> 7
      [] c = "8" -> 8 [] c = "9" -> 9

\* int(s) succeeds on a non-empty string of decimal digits
IsDecimal(s) == Len(s) > 0 /\ \A i \in 1..Len(s) : s[i] \in Digits

RECURSIVE ParseInt(_)
\* int(s) for a string of decimal digits
ParseInt(s) ==
    IF Len(s) = 0 THEN 0
    ELSE 10 * ParseInt(SubSeq(s, 1, Len(s) - 1)) + DigitValue(s[Len(s)])

\* bytes in one megabyte, Memory.from_mb(..).in_bytes
BytesPerMb == 1048576

\* Memory.from_mb(mb).in_bytes
from_mb(mb) == mb * BytesPerMb

\* MemoryPerformanceProfile.from_psutil(override_memory=..): an override,
\* when present, replaces the detected total
from_psutil(override_memory, detected) ==
    [ram_total |-> IF override_memory = None THEN detected ELSE override_memory[1]]

\* the exception kinds the collaborators of a tick may raise: the
\* recoverable telemetry fault, the overall-operation timeout, and one kind
\* that neither loop names
ErrorKinds == {"MacMonError", "TimeoutError", "ValueError"}

\* what an awaited collaborator or sink may do
Outcomes == {"ok"} \cup ErrorKinds

\* get_memory_profile with the override ignored
get_memory_profile_no_override(env, detected, sampler) ==
    IF sampler # "ok" THEN [kind |-> sampler, profile |-> None]
    ELSE [kind |-> "ok", profile |-> Some(from_psutil(None, detected))]

\* get_memory_profile: env is what os.getenv returns now, detected the host
\* memory and sampler what from_psutil does ("ok" or the kind it raises)
get_memory_profile(env, detected, sampler) ==
    IF env # None /\ env[1] # <<>> /\ ~IsDecimal(env[1])
      THEN [kind |-> "ValueError", profile |-> None]
    ELSE IF sampler # "ok"
      THEN [kind |-> sampler, profile |-> None]
    ELSE LET override_memory ==
               IF env # None /\ env[1] # <<>>
                 THEN Some(from_mb(ParseInt(env[1])))
                 ELSE None
         IN  [kind |-> "ok", profile |-> Some(from_psutil(override_memory, detected))]

(***************************************************************************)
(* profile.py: start_polling_memory_metrics                                *)
(*                                                                         *)
(* memory_loop.pc is the place the task is at:                             *)
(*   "tick"    top of the while body (line 102)                            *)
(*   "sink"    suspended in  await callback(mem)  (line 104)               *)
(*   "sleep"   suspended in  await anyio.sleep(..)  of finally (line 108)  *)
(*   "stopped" the coroutine has ended                                     *)
(* pending is what leaves the finally block after the sleep: "none" (the   *)
(* loop goes on), an exception kind, or "cancelled".  arg is the profile   *)
(* the sink is holding (the local mem is read nowhere else), raised the    *)
(* exception kind raised in the try body of the current iteration, log the *)
(* logger call of the current iteration, and iter, sleeps, sinkCalls and   *)
(* readFaults count iterations started, sleeps completed, sink invocations *)
(* and iterations whose memory read raised.                                *)
(***************************************************************************)
MemInit ==
    memory_loop = [pc |-> "tick", pending |-> "none", stop |-> "none",
                   arg |-> None, inFlight |-> 0, raised |-> "none",
                   log |-> "none", iter |-> 0, sleeps |-> 0, sinkCalls |-> 0, readFaults |-> 0]

\* lines 105-108 with the sleep skipped after a handled fault
MemExcept_no_sleep(l, kind) ==
    IF kind = "MacMonError"
      THEN [l EXCEPT !.pc = "tick", !.pending = "none", !.log = "error"]
      ELSE [l EXCEPT !.pc = "sleep", !.pending = kind]

\* lines 105-108 with the handler re-raising the fault
MemExcept_reraise(l, kind) ==
    [l EXCEPT !.pc = "sleep", !.pending = kind]

\* lines 105-108: the except clause and the entry into finally, for an
\* exception of the given kind raised in the try body
MemExcept(l, kind) ==
    IF kind = "MacMonError"
      THEN [l EXCEPT !.pc = "sleep", !.pending = "none", !.log = "error"]
      ELSE [l EXCEPT !.pc = "sleep", !.pending = kind]

\* line 104 with the coroutine started but not awaited
MemAwaitSink_no_await(l, profile) ==
    [l EXCEPT !.pc = "sleep", !.pending = "none", !.arg = Some(profile),
              !.inFlight = l.inFlight + 1, !.sinkCalls = l.sinkCalls + 1]

\* lines 103-104: mem is bound and callback(mem) is entered and awaited
MemAwaitSink(l, profile) ==
    [l EXCEPT !.pc = "sink", !.arg = Some(profile),
              !.inFlight = l.inFlight + 1, !.sinkCalls = l.sinkCalls + 1]

\* lines 101-104 with the sink invoked although the memory read raised
MemTickResult_emit_on_fault(l, env, detected, sampler) ==
    LET started == [l EXCEPT !.iter = l.iter + 1, !.log = "none", !.raised = "none"]
        r == get_memory_profile(env, detected, sampler)
    IN  IF r.kind = "ok"
          THEN MemAwaitSink(started, r.profile[1])
          ELSE MemAwaitSink([started EXCEPT !.readFaults = l.readFaults + 1,
                                            !.raised = r.kind],
                            [ram_total |-> 0])

\* lines 101-104: one pass through the try body up to the first suspension
MemTickResult(l, env, detected, sampler) ==
    LET started == [l EXCEPT !.iter = l.iter + 1, !.log = "none", !.raised = "none"]
        r == get_memory_profile(env, detected, sampler)
    IN  IF r.kind = "ok"
          THEN MemAwaitSink(started, r.profile[1])
          ELSE MemExcept([started EXCEPT !.readFaults = l.readFaults + 1,
                                         !.raised = r.kind], r.kind)

\* lines 101-104 with the memory read waiting for the node loop to be
\* outside its own try body (a lock shared by the two loops)
MemTick_locked(sampler) ==
    /\ memory_loop.pc = "tick"
    /\ memory_loop.iter < MaxTicks
    /\ node_loop.pc \notin {"metrics", "model", "name", "sink"}
    /\ memory_loop' = MemTickResult(memory_loop, overrideEnv, hostMemory, sampler)
    /\ UNCHANGED <<overrideEnv, hostMemory, node_loop, envVars, loaderVars,
                   samplerVars>>

MemTick(sampler) ==
    /\ memory_loop.pc = "tick"
    /\ memory_loop.iter < MaxTicks
    /\ memory_loop' = MemTickResult(memory_loop, overrideEnv, hostMemory, sampler)
    /\ UNCHANGED <<overrideEnv, hostMemory, node_loop, envVars, loaderVars,
                 samplerVars>>

\* line 104 with the loop going on to the next iteration as soon as the sink
\* has returned, the sleep still to run
MemSinkDone_no_sleep(outcome) ==
    /\ memory_loop.pc = "sink"
    /\ memory_loop.inFlight > 0
    /\ LET l == [memory_loop EXCEPT !.inFlight = memory_loop.inFlight - 1,
                                    !.arg = None]
       IN  memory_loop' = IF outcome = "ok"
                            THEN [l EXCEPT !.pc = "tick", !.pending = "none"]
                            ELSE MemExcept([l EXCEPT !.raised = outcome], outcome)
    /\ UNCHANGED <<overrideEnv, hostMemory, node_loop, envVars, loaderVars,
                   samplerVars>>

\* line 104: the awaited sink returns or raises
MemSinkDone(outcome) ==
    /\ memory_loop.pc = "sink"
    /\ memory_loop.inFlight > 0
    /\ LET l == [memory_loop EXCEPT !.inFlight = memory_loop.inFlight - 1,
                                    !.arg = None]
       IN  memory_loop' = IF outcome = "ok"
                            THEN [l EXCEPT !.pc = "sleep", !.pending = "none"]
                            ELSE MemExcept([l EXCEPT !.raised = outcome], outcome)
    /\ UNCHANGED <<overrideEnv, hostMemory, node_loop, envVars, loaderVars,
                 samplerVars>>

\* line 108: the sleep ends; the loop goes on or the pending exit leaves
MemSleepDone ==
    /\ memory_loop.pc = "sleep"
    /\ memory_loop' =
          IF memory_loop.pending = "none"
            THEN [memory_loop EXCEPT !.pc = "tick",
                                     !.sleeps = memory_loop.sleeps + 1]
            ELSE [memory_loop EXCEPT !.pc = "stopped",
                                     !.sleeps = memory_loop.sleeps + 1,
                                     !.stop = memory_loop.pending,
                                     !.pending = "none"]
    /\ UNCHANGED <<overrideEnv, hostMemory, node_loop, envVars, loaderVars,
                 samplerVars>>

\* the caller tears the task down while it is suspended. In the sleep the
\* cancellation ends the coroutine. In the sink it is thrown into the try
\* body, no except clause matches it, and the sleep of finally either runs
\* (a one-shot cancel) or is cancelled at once (a cancel scope).
MemCancel(sleepRuns) ==
    /\ memory_loop.pc \in {"sink", "sleep"}
    /\ memory_loop' =
          IF memory_loop.pc = "sink" /\ sleepRuns
            THEN [memory_loop EXCEPT !.pc = "sleep", !.pending = "cancelled",
                                     !.arg = None,
                                     !.inFlight = memory_loop.inFlight - 1]
          ELSE IF memory_loop.pc = "sink"
            THEN [memory_loop EXCEPT !.pc = "stopped", !.stop = "cancelled",
                                     !.pending = "none", !.arg = None,
                                     !.inFlight = memory_loop.inFlight - 1]
          ELSE [memory_loop EXCEPT !.pc = "stopped", !.stop = "cancelled",
                                   !.pending = "none"]
    /\ UNCHANGED <<overrideEnv, hostMemory, node_loop, envVars, loaderVars,
                 samplerVars>>

\* the operator changes OVERRIDE_MEMORY_MB in the process environment
SetOverride(v) ==
    /\ v # overrideEnv
    /\ overrideEnv' = v
    /\ UNCHANGED <<hostMemory, memory_loop, node_loop, envVars, loaderVars,
                 samplerVars>>

(***************************************************************************)
(* profile.py: get_metrics_async and the generic sampler                   *)
(***************************************************************************)
RECURSIVE GCD(_, _)
GCD(a, b) == IF b = 0 THEN a ELSE GCD(b, a % b)

\* a float that is the quotient of two naturals, in lowest terms
Quotient(n, d) == LET g == GCD(n, d) IN [num |-> n \div g, den |-> d \div g]

\* the float 0.0
Zero == Quotient(0, 1)

RECURSIVE SumSeq(_)
SumSeq(s) == IF s = <<>> THEN 0 ELSE s[1] + SumSeq(Tail(s))

RECURSIVE Currents(_)
\* [sensor.current for sensor in readings if sensor.current is not None]
Currents(readings) ==
    IF readings = <<>> THEN <<>>
    ELSE (IF readings[1] = None THEN <<>> ELSE <<readings[1][1]>>)
            \o Currents(Tail(readings))

RECURSIVE FlatTemps(_)
\* lines 51-56: the readings of all groups, in order
FlatTemps(groups) ==
    IF groups = <<>> THEN <<>>
    ELSE Currents(groups[1]) \o FlatTemps(Tail(groups))

\* what psutil.sensors_temperatures may do: return the groups of readings
\* (a reading's current value may be None), raise NotImplementedError or
\* psutil.Error, or not exist on this host (AttributeError)
SensorOutcomes ==
    {[kind |-> "ok", temps |-> <<>>],
     [kind |-> "ok", temps |-> << <<Some(40), Some(61)>> >>],
     [kind |-> "ok", temps |-> << <<Some(50)>>, <<None, Some(30), Some(40)>> >>],
     [kind |-> "NotImplementedError", temps |-> <<>>],
     [kind |-> "psutil.Error", temps |-> <<>>],
     [kind |-> "AttributeError", temps |-> <<>>]}

\* psutil.cpu_percent(interval=None)
CpuPercents == {0, 37}
\* psutil.cpu_count(logical=True): None when undetermined
CpuCounts == {None, Some(8)}

\* lines 48-60 with only the first sensor group averaged
avg_temp_first_group(sensors) ==
    IF sensors.kind # "ok" \/ sensors.temps = <<>> THEN Zero
    ELSE LET flat_temps == Currents(sensors.temps[1])
         IN  IF flat_temps # <<>>
               THEN Quotient(SumSeq(flat_temps), Len(flat_temps))
               ELSE Zero

\* lines 48-60: avg_temp
avg_temp(sensors) ==
    IF sensors.kind # "ok" THEN Zero
    ELSE LET flat_temps == FlatTemps(sensors.temps)
         IN  IF flat_temps # <<>>
               THEN Quotient(SumSeq(flat_temps), Len(flat_temps))
               ELSE Zero

\* lines 62-75 with the two components of pcpu_usage in each other's place
_collect_generic_metrics_swapped(cpu_percent, cpu_count, sensors) ==
    IF sensors.kind \notin {"ok", "NotImplementedError", "psutil.Error"}
      THEN [kind |-> sensors.kind, metrics |-> None]
    ELSE LET logical_cpus == IF cpu_count = None THEN 0 ELSE cpu_count[1]
         IN  [kind |-> "ok",
              metrics |-> Some(
                [all_power |-> 0, ane_power |-> 0, cpu_power |-> 0,
                 ecpu_usage |-> <<0, 0>>, gpu_power |-> 0, gpu_ram_power |-> 0,
                 gpu_usage |-> <<0, 0>>,
                 pcpu_usage |-> <<cpu_percent, logical_cpus>>,
                 ram_power |-> 0, sys_power |-> 0,
                 temp |-> [cpu_temp_avg |-> avg_temp(sensors),
                           gpu_temp_avg |-> avg_temp(sensors)],
                 timestamp |-> ""])]

\* _collect_generic_metrics: the Metrics record, or the exception that
\* leaves it
_collect_generic_metrics(cpu_percent, cpu_count, sensors) ==
    IF sensors.kind \notin {"ok", "NotImplementedError", "psutil.Error"}
      THEN [kind |-> sensors.kind, metrics |-> None]
    ELSE LET logical_cpus == IF cpu_count = None THEN 0 ELSE cpu_count[1]
         IN  [kind |-> "ok",
              metrics |-> Some(
                [all_power |-> 0, ane_power |-> 0, cpu_power |-> 0,
                 ecpu_usage |-> <<0, 0>>, gpu_power |-> 0, gpu_ram_power |-> 0,
                 gpu_usage |-> <<0, 0>>,
                 pcpu_usage |-> <<logical_cpus, cpu_percent>>,
                 ram_power |-> 0, sys_power |-> 0,
                 temp |-> [cpu_temp_avg |-> avg_temp(sensors),
                           gpu_temp_avg |-> avg_temp(sensors)],
                 timestamp |-> ""])]

\* everything the psutil fallback may return or raise
GenericOutcomes ==
    {_collect_generic_metrics(cpu_percent, cpu_count, sensors) :
        cpu_percent \in CpuPercents, cpu_count \in CpuCounts,
        sensors \in SensorOutcomes}

\* a sample of the native telemetry collaborator (macmon)
MacmonSample ==
    [all_power |-> 21, ane_power |-> 1, cpu_power |-> 9,
     ecpu_usage |-> <<4, 12>>, gpu_power |-> 7, gpu_ram_power |-> 2,
     gpu_usage |-> <<30, 55>>, pcpu_usage |-> <<8, 41>>,
     ram_power |-> 3, sys_power |-> 25,
     temp |-> [cpu_temp_avg |-> Quotient(52, 1), gpu_temp_avg |-> Quotient(47, 1)],
     timestamp |-> "t"]

\* what macmon's get_metrics_async may do: a sample, None (no more
\* samples), or an exception
NativeOutcomes ==
    {[kind |-> "ok", metrics |-> Some(MacmonSample)],
     [kind |-> "none", metrics |-> None]}
      \cup {[kind |-> k, metrics |-> None] : k \in ErrorKinds}

\* get_metrics_async: native is what macmon does, generic what the psutil
\* fallback does
get_metrics_async(plat, native, generic) ==
    IF Lower(plat) = "darwin" THEN native ELSE generic

(***************************************************************************)
(* profile.py: start_polling_node_metrics                                  *)
(*                                                                         *)
(* node_loop.pc:                                                           *)
(*   "start"   top of the while body (line 116)                            *)
(*   "metrics" suspended in  await get_metrics_async()  (line 117)         *)
(*   "model"   suspended in  await get_model_and_chip()  (line 123)        *)
(*   "name"    suspended in  await get_friendly_name()  (line 124)         *)
(*   "sink"    suspended in  await callback(..)  (line 129)                *)
(*   "sleep"   suspended in  await anyio.sleep(..)  of finally (line 154)  *)
(*   "stopped" the coroutine has ended                                     *)
(* pending is what leaves the finally block after the sleep: "none", the   *)
(* "return" of line 119, an exception kind, or "cancelled".  The locals    *)
(* metrics .. memory_profile are each assigned before they are read in an  *)
(* iteration, so the model forgets them where the try body is left.  arg   *)
(* is the profile the sink is holding, raised the exception kind raised in *)
(* the try body of the current iteration, log its logger call, absent      *)
(* whether get_metrics_async has returned None, and iter, sleeps,          *)
(* sinkCalls and faults count iterations started, sleeps completed, sink   *)
(* invocations and iterations that raised before reaching the sink.        *)
(* elapsed is the time in seconds the current iteration has spent          *)
(* suspended in its try body; only SpecNode lets time pass.                *)
(***************************************************************************)
NetworkInterfaces == <<"en0", "lo0">>
ModelsAndChips == {<<"Mac15,9", "Apple M3 Max">>, <<"Unknown Model", "Unknown Chip">>}
FriendlyName == "node-a"

NodeInit ==
    node_loop = [pc |-> "start", pending |-> "none", stop |-> "none",
                 metrics |-> None, network_interfaces |-> None,
                 model_id |-> None, chip_id |-> None, friendly_name |-> None,
                 memory_profile |-> None, arg |-> None, inFlight |-> 0,
                 raised |-> "none", log |-> "none", absent |-> FALSE,
                 iter |-> 0, sleeps |-> 0, sinkCalls |-> 0, faults |-> 0,
                 elapsed |-> 0]

\* the locals of an iteration are dead once its try body is left
Forget(l) ==
    [l EXCEPT !.metrics = None, !.network_interfaces = None, !.model_id = None,
              !.chip_id = None, !.friendly_name = None, !.memory_profile = None]

\* lines 147-154 with the sleep skipped after a handled exception
NodeExcept_no_sleep(l, kind) ==
    IF kind \in {"TimeoutError", "MacMonError"}
      THEN [Forget(l) EXCEPT !.pc = "start", !.pending = "none",
                             !.log = IF kind = "TimeoutError" THEN "warning" ELSE "error"]
      ELSE [Forget(l) EXCEPT !.pc = "sleep", !.pending = kind]

\* lines 147-154 with the recoverable fault re-raised by its handler
NodeExcept_reraise(l, kind) ==
    IF kind = "TimeoutError"
      THEN [Forget(l) EXCEPT !.pc = "sleep", !.pending = "none", !.log = "warning"]
      ELSE [Forget(l) EXCEPT !.pc = "sleep", !.pending = kind]

\* lines 147-154: the except clauses and the entry into finally, for an
\* exception of the given kind raised in the try body
NodeExcept(l, kind) ==
    IF kind = "TimeoutError"
      THEN [Forget(l) EXCEPT !.pc = "sleep", !.pending = "none", !.log = "warning"]
    ELSE IF kind = "MacMonError"
      THEN [Forget(l) EXCEPT !.pc = "sleep", !.pending = "none", !.log = "error"]
    ELSE [Forget(l) EXCEPT !.pc = "sleep", !.pending = kind]

\* an exception raised before the sink was entered
NodeFault(l, kind) ==
    NodeExcept([l EXCEPT !.faults = l.faults + 1, !.raised = kind], kind)

\* lines 130-144 with the two identities handed over in each other's place
NodePerformanceProfile_swapped(l, memory_profile) ==
    [model_id |-> l.chip_id[1],
     chip_id |-> l.model_id[1],
     friendly_name |-> l.friendly_name[1],
     network_interfaces |-> l.network_interfaces[1],
     memory |-> memory_profile,
     system |-> [gpu_usage |-> l.metrics[1].gpu_usage[2],
                 temp |-> l.metrics[1].temp.gpu_temp_avg,
                 sys_power |-> l.metrics[1].sys_power,
                 pcpu_usage |-> l.metrics[1].pcpu_usage[2],
                 ecpu_usage |-> l.metrics[1].ecpu_usage[2],
                 ane_power |-> l.metrics[1].ane_power]]

\* lines 130-144: the profile handed to the sink
NodePerformanceProfile(l, memory_profile) ==
    [model_id |-> l.model_id[1],
     chip_id |-> l.chip_id[1],
     friendly_name |-> l.friendly_name[1],
     network_interfaces |-> l.network_interfaces[1],
     memory |-> memory_profile,
     system |-> [gpu_usage |-> l.metrics[1].gpu_usage[2],
                 temp |-> l.metrics[1].temp.gpu_temp_avg,
                 sys_power |-> l.metrics[1].sys_power,
                 pcpu_usage |-> l.metrics[1].pcpu_usage[2],
                 ecpu_usage |-> l.metrics[1].ecpu_usage[2],
                 ane_power |-> l.metrics[1].ane_power]]

\* line 116: the iteration starts and get_metrics_async is awaited
NodeStart ==
    /\ node_loop.pc = "start"
    /\ node_loop.iter < MaxTicks
    /\ node_loop' = [node_loop EXCEPT !.pc = "metrics", !.log = "none",
                                      !.raised = "none", !.elapsed = 0,
                                      !.iter = node_loop.iter + 1]
    /\ UNCHANGED <<overrideEnv, hostMemory, memory_loop, envVars, loaderVars,
                 samplerVars>>

\* line 119 with the loop skipping the tick instead of returning
NodeAbsent_continue(l) ==
    [l EXCEPT !.pc = "sleep", !.pending = "none"]

\* lines 118-119 with the return leaving at once, the finally block not run
NodeAbsent_immediate(l) ==
    [Forget(l) EXCEPT !.pc = "stopped", !.stop = "return", !.pending = "none"]

\* lines 118-119: metrics is None, return (through finally)
NodeAbsent(l) ==
    [Forget(l) EXCEPT !.pc = "sleep", !.pending = "return"]

\* lines 117-123: get_metrics_async returns, the network interfaces are
\* read and get_model_and_chip is awaited
NodeMetricsResult(l, got, net) ==
    IF got.kind = "none" THEN NodeAbsent([l EXCEPT !.absent = TRUE])
    ELSE IF got.kind # "ok" THEN NodeFault(l, got.kind)
    ELSE IF net # "ok" THEN NodeFault([l EXCEPT !.metrics = got.metrics], net)
    ELSE [l EXCEPT !.pc = "model", !.metrics = got.metrics,
                   !.network_interfaces = Some(NetworkInterfaces)]

\* everything get_metrics_async may return or raise on the platform
MetricsOutcomes(plat) ==
    {get_metrics_async(plat, native, generic) :
        native \in NativeOutcomes, generic \in GenericOutcomes}

NodeMetricsDone(got, net) ==
    /\ node_loop.pc = "metrics"
    /\ node_loop' = NodeMetricsResult(node_loop, got, net)
    /\ UNCHANGED <<overrideEnv, hostMemory, memory_loop, envVars, loaderVars,
                 samplerVars>>

\* lines 123-124: get_model_and_chip returns and get_friendly_name is awaited
NodeModelDone(outcome, mc) ==
    /\ node_loop.pc = "model"
    /\ node_loop' =
          IF outcome = "ok"
            THEN [node_loop EXCEPT !.pc = "name", !.model_id = Some(mc[1]),
                                   !.chip_id = Some(mc[2])]
            ELSE NodeFault(node_loop, outcome)
    /\ UNCHANGED <<overrideEnv, hostMemory, memory_loop, envVars, loaderVars,
                 samplerVars>>

\* lines 129-145: callback(NodePerformanceProfile(..)) is entered and awaited
NodeAwaitSink(l, profile) ==
    [l EXCEPT !.pc = "sink", !.arg = Some(profile),
              !.inFlight = l.inFlight + 1, !.sinkCalls = l.sinkCalls + 1]

\* lines 124-145 with a suspension point between the memory read of line
\* 127 and the callback of line 129
NodeNameResult_yield(l, outcome, env, detected, sampler) ==
    IF outcome # "ok" THEN NodeFault(l, outcome)
    ELSE LET named == [l EXCEPT !.friendly_name = Some(FriendlyName)]
             r == get_memory_profile(env, detected, sampler)
         IN  IF r.kind # "ok" THEN NodeFault(named, r.kind)
             ELSE IF l.memory_profile = None
               THEN [named EXCEPT !.memory_profile = r.profile]
             ELSE NodeAwaitSink(named,
                      NodePerformanceProfile(named, l.memory_profile[1]))

\* lines 124-145: get_friendly_name returns, the memory profile is read
\* and the sink is entered
NodeNameResult(l, outcome, env, detected, sampler) ==
    IF outcome # "ok" THEN NodeFault(l, outcome)
    ELSE LET named == [l EXCEPT !.friendly_name = Some(FriendlyName)]
             r == get_memory_profile(env, detected, sampler)
         IN  IF r.kind # "ok" THEN NodeFault(named, r.kind)
             ELSE LET read == [named EXCEPT !.memory_profile = r.profile]
                  IN  NodeAwaitSink(read, NodePerformanceProfile(read, r.profile[1]))

NodeNameDone(outcome, sampler) ==
    /\ node_loop.pc = "name"
    /\ node_loop' = NodeNameResult(node_loop, outcome, overrideEnv, hostMemory, sampler)
    /\ UNCHANGED <<overrideEnv, hostMemory, memory_loop, envVars, loaderVars,
                 samplerVars>>

\* line 129: the awaited sink returns or raises
NodeSinkDone(outcome) ==
    /\ node_loop.pc = "sink"
    /\ node_loop.inFlight > 0
    /\ LET l == [node_loop EXCEPT !.inFlight = node_loop.inFlight - 1, !.arg = None]
       IN  node_loop' = IF outcome = "ok"
                          THEN [Forget(l) EXCEPT !.pc = "sleep", !.pending = "none"]
                          ELSE NodeExcept([l EXCEPT !.raised = outcome], outcome)
    /\ UNCHANGED <<overrideEnv, hostMemory, memory_loop, envVars, loaderVars,
                 samplerVars>>

\* line 154: the sleep ends; the loop goes on or the pending exit leaves
NodeSleepDone ==
    /\ node_loop.pc = "sleep"
    /\ node_loop' =
          IF node_loop.pending = "none"
            THEN [node_loop EXCEPT !.pc = "start", !.sleeps = node_loop.sleeps + 1]
            ELSE [node_loop EXCEPT !.pc = "stopped",
                                   !.sleeps = node_loop.sleeps + 1,
                                   !.stop = node_loop.pending,
                                   !.pending = "none"]
    /\ UNCHANGED <<overrideEnv, hostMemory, memory_loop, envVars, loaderVars,
                 samplerVars>>

\* the caller tears the task down while it is suspended (see MemCancel)
NodeCancel(sleepRuns) ==
    /\ node_loop.pc \in {"metrics", "model", "name", "sink", "sleep"}
    /\ LET l == IF node_loop.pc = "sink"
                  THEN [node_loop EXCEPT !.inFlight = node_loop.inFlight - 1,
                                         !.arg = None]
                  ELSE node_loop
       IN  node_loop' =
             IF node_loop.pc # "sleep" /\ sleepRuns
               THEN [Forget(l) EXCEPT !.pc = "sleep", !.pending = "cancelled"]
               ELSE [Forget(l) EXCEPT !.pc = "stopped", !.stop = "cancelled",
                                      !.pending = "none"]
    /\ UNCHANGED <<overrideEnv, hostMemory, memory_loop, envVars, loaderVars,
                 samplerVars>>

\* the budget the warning of line 149 names for a full tick, in seconds
Budget == 30

\* the suspension points of the try body (lines 117, 123, 124, 129)
NodeAwaits == {"metrics", "model", "name", "sink"}

\* lines 117-145: time passes while the loop is suspended in its try body;
\* no statement of the loop bounds the wait (the awaits are bare, there is
\* no wait_for or fail_after around them)
NodeElapse ==
    /\ node_loop.pc \in NodeAwaits
    /\ node_loop.elapsed + TimeStep <= MaxElapsed
    /\ node_loop' = [node_loop EXCEPT !.elapsed = node_loop.elapsed + TimeStep]
    /\ UNCHANGED <<overrideEnv, hostMemory, memory_loop, envVars, loaderVars,
                   samplerVars>>

\* the host on which nothing is sampled yet: Spec and SpecLoader do not read
\* these variables (Spec draws the sampler's outcome afresh at every tick)
SamplerIdle ==
    /\ hostCpuPercent = 0
    /\ hostCpuCount = None
    /\ hostSensors = [kind |-> "ok", temps |-> <<>>]

\* the load, the processors or the sensors of the host change
SetHost(p, c, s) ==
    /\ <<p, c, s>> # <<hostCpuPercent, hostCpuCount, hostSensors>>
    /\ hostCpuPercent' = p
    /\ hostCpuCount' = c
    /\ hostSensors' = s
    /\ UNCHANGED <<overrideEnv, hostMemory, memory_loop, node_loop, envVars,
                   loaderVars>>

PollInit ==
    /\ overrideEnv \in OverrideValues
    /\ hostMemory \in HostMemories
    /\ SamplerIdle
    /\ MemInit
    /\ NodeInit

(***************************************************************************)
(* Specifications                                                          *)
(***************************************************************************)
EnvInit ==
    /\ platformName \in Platforms
    /\ genMod \in ModStates
    /\ utilsMod \in ModStates

\* the loader under concurrent callers; the polling tasks are not started
InitLoader ==
    /\ EnvInit
    /\ LoaderInit
    /\ overrideEnv = None
    /\ hostMemory = 8 * 1048576
    /\ SamplerIdle
    /\ MemInit
    /\ NodeInit

NextLoader ==
    \/ \E t \in Callers : Call(t) /\ UNCHANGED pollVars
    \/ \E t \in Callers : CheckCache(t) /\ UNCHANGED pollVars
    \/ \E t \in Callers : Build(t) /\ UNCHANGED pollVars
    \/ \E t \in Callers : Store(t) /\ UNCHANGED pollVars
    \/ \E t \in Callers : Return(t) /\ UNCHANGED pollVars
    \/ \E p \in Platforms : SetPlatform(p) /\ UNCHANGED pollVars
    \/ \E g, u \in ModStates : SetModules(g, u) /\ UNCHANGED pollVars

SpecLoader == InitLoader /\ [][NextLoader]_vars

\* the two polling loops as cooperative tasks of one process, on a host
\* whose backend modules are intact; the loader is not called
Init ==
    /\ platformName \in Platforms
    /\ genMod = "ok"
    /\ utilsMod = "ok"
    /\ LoaderInit
    /\ PollInit

Next ==
    \/ \E sampler \in {"ok", "MacMonError"} : MemTick(sampler)
    \/ \E outcome \in Outcomes : MemSinkDone(outcome)
    \/ MemSleepDone
    \/ \E sleepRuns \in BOOLEAN : MemCancel(sleepRuns)
    \/ NodeStart
    \/ \E got \in MetricsOutcomes(platformName), net \in Outcomes :
            NodeMetricsDone(got, net)
    \/ \E outcome \in Outcomes, mc \in ModelsAndChips : NodeModelDone(outcome, mc)
    \/ \E outcome \in Outcomes, sampler \in {"ok", "MacMonError"} :
            NodeNameDone(outcome, sampler)
    \/ \E outcome \in Outcomes : NodeSinkDone(outcome)
    \/ NodeSleepDone
    \/ \E sleepRuns \in BOOLEAN : NodeCancel(sleepRuns)
    \/ \E v \in OverrideValues : SetOverride(v)

Spec == Init /\ [][Next]_vars

\* the node loop alone, on a host whose load and sensors are state, so that
\* what a tick hands to the sink can be compared with what the host
\* reported, and with the time the tick spends waiting
InitNode ==
    /\ platformName \in Platforms
    /\ genMod = "ok"
    /\ utilsMod = "ok"
    /\ LoaderInit
    /\ overrideEnv \in {None, Some(<<"2">>)}
    /\ hostMemory = 8 * 1048576
    /\ hostCpuPercent \in CpuPercents
    /\ hostCpuCount \in CpuCounts
    /\ hostSensors \in SensorOutcomes
    /\ MemInit
    /\ NodeInit

NextNode ==
    \/ NodeStart
    \/ \E native \in NativeOutcomes, net \in Outcomes :
            NodeMetricsDone(
                get_metrics_async(platformName, native,
                    _collect_generic_metrics(hostCpuPercent, hostCpuCount,
                                             hostSensors)),
                net)
    \/ \E outcome \in Outcomes, mc \in ModelsAndChips : NodeModelDone(outcome, mc)
    \/ \E outcome \in Outcomes, sampler \in {"ok", "MacMonError"} :
            NodeNameDone(outcome, sampler)
    \/ \E outcome \in Outcomes : NodeSinkDone(outcome)
    \/ NodeSleepDone
    \/ \E sleepRuns \in BOOLEAN : NodeCancel(sleepRuns)
    \/ NodeElapse
    \/ \E p \in CpuPercents, c \in CpuCounts, s \in SensorOutcomes : SetHost(p, c, s)

SpecNode == InitNode /\ [][NextNode]_vars

(***************************************************************************)
(* Claims about the capability loader, checked under SpecLoader.           *)
(***************************************************************************)
\* caller t takes the step named by the position it leaves
Leaves(t, at) == pc[t] = at /\ pc'[t] # at

\* C1: once a call has succeeded (the cache is set), the cached handle is
\* never cleared or replaced, and no later step runs _build_backend again:
\* every call that starts afterwards goes straight to the return of the
\* cached handle.
C1_SuccessMemoized ==
    [][cached # NoHandle =>
          /\ cached' = cached
          /\ builds' = builds
          /\ \A t \in Callers : Leaves(t, "check") => pc'[t] = "ret"]_vars

\* C2: failure is never cached. A call that finds the cache unset always
\* runs _build_backend; a call whose platform check fails ends with
\* MlxUnavailableError, logs exactly one warning and does not touch the
\* cache; warnings are logged by failing calls only; and whatever failed
\* before, a call that resolves on darwin with both modules intact builds a
\* handle.
C2_FailureNeverCached ==
    [][/\ \A t \in Callers :
            /\ (Leaves(t, "check") /\ cached = NoHandle) => pc'[t] = "build"
            /\ (Leaves(t, "build") /\ Lower(platformName) # "darwin") =>
                  /\ builds' = builds + 1
                  /\ result'[t].kind = "MlxUnavailableError"
                  /\ pc'[t] = "idle"
                  /\ warnings' = warnings + 1
                  /\ cached' = cached
            /\ (Leaves(t, "build") /\ Lower(platformName) = "darwin"
                  /\ genMod = "ok" /\ utilsMod = "ok") =>
                  /\ pc'[t] = "store"
                  /\ built'[t] # NoHandle
                  /\ warnings' = warnings
       /\ warnings' # warnings =>
            /\ warnings' = warnings + 1
            /\ \E t \in Callers :
                  Leaves(t, "build") /\ result'[t].kind = "MlxUnavailableError"
       /\ (cached = NoHandle /\ cached' # NoHandle) =>
            \E t \in Callers : Leaves(t, "store") /\ cached' = built[t]]_vars

\* C2 witness: caller 1 alone made two calls; the first failed on the
\* platform check with one warning, the second succeeded.
C2_Witness ==
    /\ calls = 2
    /\ pc = [t \in Callers |-> "idle"]
    /\ \A t \in Callers \ {1} : result[t] = NoResult
    /\ platformFailures = 1
    /\ warnings = 1
    /\ result[1].kind = "ok"
    /\ result[1].handle = cached
    /\ cached # NoHandle

\* C3: concurrent first calls resolve exactly once: one bundle is built, the
\* singleton is written at most once, and all callers get the same handle.
C3_ResolveOnce ==
    /\ nextHandle <= 1
    /\ cacheWrites <= 1
    /\ \A t1, t2 \in Callers :
          (result[t1].kind = "ok" /\ result[t2].kind = "ok") =>
              result[t1].handle = result[t2].handle

\* C4: on darwin, a call whose resolution fails (a module missing, or a
\* module lacking an entry point) ends with MlxUnavailableError carrying the
\* underlying cause, and with no other error kind.
C4_TypedFailure ==
    [][\A t \in Callers :
          (Leaves(t, "build") /\ Lower(platformName) = "darwin"
              /\ (genMod # "ok" \/ utilsMod # "ok")) =>
              /\ result'[t].kind = "MlxUnavailableError"
              /\ result'[t].cause # "none"]_vars

(***************************************************************************)
(* Claims about the polling loops, checked under Spec.                     *)
(***************************************************************************)
\* C5 as stated: while the memory loop runs, after n sleeps the sink has
\* been invoked n times, give or take one, whatever recoverable faults the
\* sink or the memory read raised.
C5_SinkCountAsStated ==
    (memory_loop.stop = "none" /\ memory_loop.pending = "none") =>
        memory_loop.sinkCalls - memory_loop.sleeps \in -1..1

\* C5, amended: after n sleeps the memory loop has started n or n+1
\* iterations; each started iteration either invoked the sink once or
\* raised in its memory read (and then invoked no sink), so sink invocations
\* plus read-faulted iterations is n give or take one; and the recoverable
\* fault, raised by the read or by the sink, never stops the loop.
C5_SinkCount ==
    /\ memory_loop.sinkCalls + memory_loop.readFaults = memory_loop.iter
    /\ memory_loop.iter - memory_loop.sleeps \in 0..1
    /\ memory_loop.raised = "MacMonError" =>
          /\ memory_loop.pc \in {"sleep", "tick"} \/ memory_loop.stop = "cancelled"
          /\ memory_loop.pending \in {"none", "cancelled"}
    /\ memory_loop.stop # "MacMonError"

\* C5 witness: two intervals have passed; one iteration raised the
\* recoverable fault in its read, the other invoked the sink, and the loop
\* is about to start a third iteration.
C5_Witness ==
    /\ memory_loop.pc = "tick"
    /\ memory_loop.sleeps = 2
    /\ memory_loop.readFaults = 1
    /\ memory_loop.sinkCalls = 1
    /\ memory_loop.raised = "MacMonError"
    /\ memory_loop.log = "error"

\* C6 as stated: when the node loop has returned on Absent in iteration K,
\* exactly K-1 sink invocations have occurred and nothing was logged.
C6_AbsentExitAsStated ==
    node_loop.stop = "return" =>
        /\ node_loop.sinkCalls = node_loop.iter - 1
        /\ node_loop.log = "none"

\* C6, amended: once the metrics source has yielded Absent in iteration K,
\* no further iteration starts and no sink call is made for iteration K;
\* each of the K-1 earlier iterations invoked the sink exactly once unless
\* it raised before reaching the sink, so the sink invocations number K-1
\* minus the earlier iterations that raised; nothing is logged, and the loop
\* sleeps once more and then is Stopped by the plain return (or by a
\* cancellation during that sleep).
C6_AbsentExit ==
    node_loop.absent =>
        /\ node_loop.sinkCalls + node_loop.faults = node_loop.iter - 1
        /\ node_loop.inFlight = 0
        /\ node_loop.arg = None
        /\ node_loop.log = "none"
        /\ node_loop.raised = "none"
        /\ \/ node_loop.pc = "sleep" /\ node_loop.pending = "return"
           \/ node_loop.pc = "stopped" /\ node_loop.stop \in {"return", "cancelled"}

\* C6 witness: Absent came in the second iteration, after a first iteration
\* that invoked the sink, and the loop has returned.
C6_Witness ==
    /\ node_loop.absent
    /\ node_loop.stop = "return"
    /\ node_loop.iter = 2
    /\ node_loop.sinkCalls = 1
    /\ node_loop.faults = 0

\* C7 as stated: a loop is Stopped only by the node loop's Absent exit or by
\* cancellation; no failure of a tick, of any kind, leaves a loop.
C7_NoFailureSurfacesAsStated ==
    /\ memory_loop.stop \in {"none", "cancelled"}
    /\ node_loop.stop \in {"none", "return", "cancelled"}

\* C7, amended: the recoverable fault (MacMonError) raised in a tick of
\* either loop, and a timeout (asyncio.TimeoutError) raised in a tick of the
\* node loop, are never surfaced past the loop. An exception of any other
\* kind raised in the try body leaves the loop after the end-of-iteration
\* sleep, so a loop reaches Stopped by the node loop's Absent exit, by
\* cancellation, or by such an unhandled exception.
C7_FailureIsolation ==
    /\ memory_loop.stop \notin {"MacMonError"}
    /\ memory_loop.pending \notin {"MacMonError"}
    /\ node_loop.stop \notin {"MacMonError", "TimeoutError"}
    /\ node_loop.pending \notin {"MacMonError", "TimeoutError"}
    /\ memory_loop.raised \notin {"none", "MacMonError"} =>
          \/ memory_loop.pc = "sleep"
                /\ memory_loop.pending \in {memory_loop.raised, "cancelled"}
          \/ memory_loop.pc = "stopped"
                /\ memory_loop.stop \in {memory_loop.raised, "cancelled"}
    /\ node_loop.raised \notin {"none", "MacMonError", "TimeoutError"} =>
          \/ node_loop.pc = "sleep"
                /\ node_loop.pending \in {node_loop.raised, "cancelled"}
          \/ node_loop.pc = "stopped"
                /\ node_loop.stop \in {node_loop.raised, "cancelled"}
    /\ memory_loop.pc = "stopped" <=> memory_loop.stop # "none"
    /\ node_loop.pc = "stopped" <=> node_loop.stop # "none"

\* C7 witness: the node loop has absorbed a timeout in its first iteration,
\* slept and is at the top of the second, while the memory loop was stopped
\* by an exception that is not the recoverable fault.
C7_Witness ==
    /\ node_loop.pc = "start"
    /\ node_loop.sleeps = 1
    /\ node_loop.raised = "TimeoutError"
    /\ node_loop.log = "warning"
    /\ memory_loop.pc = "stopped"
    /\ memory_loop.stop = "ValueError"

\* C8: in each loop at most one sink invocation is in flight: the sink is
\* in flight exactly while the loop is suspended in it, so the next
\* invocation is issued only after the previous one has completed.
C8_OneSinkInFlight ==
    /\ memory_loop.inFlight = (IF memory_loop.pc = "sink" THEN 1 ELSE 0)
    /\ node_loop.inFlight = (IF node_loop.pc = "sink" THEN 1 ELSE 0)

\* C8 witness: both loops are suspended in the sink call of their second
\* iteration at the same time.
C8_Witness ==
    /\ memory_loop.pc = "sink" /\ memory_loop.iter = 2 /\ memory_loop.sinkCalls = 2
    /\ node_loop.pc = "sink" /\ node_loop.iter = 2 /\ node_loop.sinkCalls = 2

\* the override in megabytes, for the decimal values of OverrideValues
OverrideMb ==
    CASE overrideEnv = Some(<<"2">>) -> Some(2)
      [] overrideEnv = Some(<<"1", "2">>) -> Some(12)
      [] OTHER -> None

\* C9: every memory read of either loop uses the override as it is at that
\* read: the profile handed to the sink reports M megabytes when the
\* override is M at the read, whatever memory the host has and whatever the
\* override was at earlier reads.
C9_MemoryOverride ==
    [][/\ (memory_loop.pc = "tick" /\ memory_loop'.pc = "sink"
              /\ OverrideMb # None) =>
            memory_loop'.arg = Some([ram_total |-> OverrideMb[1] * 1024 * 1024])
       /\ (node_loop.pc = "name" /\ node_loop'.pc = "sink"
              /\ OverrideMb # None) =>
            node_loop'.arg[1].memory = [ram_total |-> OverrideMb[1] * 1024 * 1024]]_vars

\* C9 witness: on one host, the memory loop's second read saw an override of
\* 2 MB while the node loop's read saw one of 12 MB; both profiles are in
\* the hands of the sinks and neither reports the host's memory.
C9_Witness ==
    /\ memory_loop.pc = "sink"
    /\ memory_loop.iter = 2
    /\ memory_loop.arg = Some([ram_total |-> 2 * 1024 * 1024])
    /\ node_loop.pc = "sink"
    /\ node_loop.arg # None
    /\ node_loop.arg[1].memory = [ram_total |-> 12 * 1024 * 1024]
    /\ hostMemory = 16 * 1024 * 1024

\* C10: in both loops a recoverable fault (MacMonError) raised anywhere in
\* a tick, the sink included, is logged and not propagated: the loop goes to
\* its end-of-iteration sleep with nothing pending, and from that sleep it
\* goes to the top of the next iteration (only a cancellation stops it).
C10_RecoverableFaultContinues ==
    [][/\ memory_loop'.raised = "MacMonError" =>
            /\ memory_loop'.log = "error"
            /\ memory_loop'.pending \in {"none", "cancelled"}
            /\ memory_loop'.stop \in {"none", "cancelled"}
       /\ (memory_loop.raised = "MacMonError" /\ memory_loop.pc = "tick") =>
            memory_loop.sleeps = memory_loop.iter
       /\ (memory_loop.raised = "MacMonError" /\ memory_loop'.raised = "none") =>
            memory_loop.pc = "tick" /\ memory_loop'.iter = memory_loop.iter + 1
       /\ (memory_loop.raised = "MacMonError" /\ memory_loop.pc = "sleep"
              /\ memory_loop.pending = "none" /\ memory_loop' # memory_loop) =>
            \/ memory_loop'.pc = "tick"
            \/ memory_loop'.stop = "cancelled"
       /\ node_loop'.raised = "MacMonError" =>
            /\ node_loop'.log = "error"
            /\ node_loop'.pending \in {"none", "cancelled"}
            /\ node_loop'.stop \in {"none", "cancelled"}
       /\ (node_loop.raised = "MacMonError" /\ node_loop.pc = "start") =>
            node_loop.sleeps = node_loop.iter
       /\ (node_loop.raised = "MacMonError" /\ node_loop'.raised = "none") =>
            node_loop.pc = "start" /\ node_loop'.iter = node_loop.iter + 1
       /\ (node_loop.raised = "MacMonError" /\ node_loop.pc = "sleep"
              /\ node_loop.pending = "none" /\ node_loop' # node_loop) =>
            \/ node_loop'.pc = "start"
            \/ node_loop'.stop = "cancelled"]_vars

\* C10 witness: in both loops the sink of the first iteration raised the
\* recoverable fault; both loops logged it, slept and are at the top of
\* their second iteration.
C10_Witness ==
    /\ memory_loop.pc = "tick" /\ memory_loop.raised = "MacMonError"
    /\ memory_loop.sinkCalls = 1 /\ memory_loop.sleeps = 1
    /\ memory_loop.log = "error"
    /\ node_loop.pc = "start" /\ node_loop.raised = "MacMonError"
    /\ node_loop.sinkCalls = 1 /\ node_loop.faults = 0 /\ node_loop.sleeps = 1
    /\ node_loop.log = "error"

(***************************************************************************)
(* Claims about the order of the steps of the polling loops, checked under *)
(* Spec.                                                                   *)
(***************************************************************************)
\* the step is the caller's cancellation of the loop
MemCancelled == memory_loop'.pending = "cancelled" \/ memory_loop'.stop = "cancelled"
NodeCancelled == node_loop'.pending = "cancelled" \/ node_loop'.stop = "cancelled"

\* C11: in both loops every iteration ends with exactly one sleep, whether
\* its work succeeded or raised: whenever the try body is left (by a sink
\* that returned, by a handled or an unhandled exception, by the return on
\* a missing sample) the loop is in the sleep of finally, a sleep that ends
\* is the one sleep of the current iteration, and an iteration starts only
\* when every earlier iteration has completed its sleep. Only the caller's
\* cancellation ends a loop without that sleep.
C11_UnconditionalSleep ==
    [][/\ (memory_loop.pc \in {"tick", "sink"} /\ memory_loop'.pc \notin {"tick", "sink"}) =>
            \/ memory_loop'.pc = "sleep"
            \/ MemCancelled
       /\ (node_loop.pc \in NodeAwaits /\ node_loop'.pc \notin NodeAwaits) =>
            \/ node_loop'.pc = "sleep"
            \/ NodeCancelled
       /\ memory_loop'.sleeps # memory_loop.sleeps =>
            /\ memory_loop.pc = "sleep"
            /\ memory_loop'.sleeps = memory_loop.sleeps + 1
            /\ memory_loop'.sleeps = memory_loop.iter
       /\ node_loop'.sleeps # node_loop.sleeps =>
            /\ node_loop.pc = "sleep"
            /\ node_loop'.sleeps = node_loop.sleeps + 1
            /\ node_loop'.sleeps = node_loop.iter
       /\ memory_loop'.iter # memory_loop.iter =>
            /\ memory_loop.pc = "tick"
            /\ memory_loop.sleeps = memory_loop.iter
       /\ node_loop'.iter # node_loop.iter =>
            /\ node_loop.pc = "start"
            /\ node_loop.sleeps = node_loop.iter
       /\ (memory_loop.pc = "sleep" /\ memory_loop'.pc # "sleep") =>
            \/ memory_loop'.sleeps = memory_loop.sleeps + 1
            \/ MemCancelled
       /\ (node_loop.pc = "sleep" /\ node_loop'.pc # "sleep") =>
            \/ node_loop'.sleeps = node_loop.sleeps + 1
            \/ NodeCancelled]_vars

\* C11 witness: the memory loop slept after an iteration that invoked the
\* sink and again after one that raised an exception no clause handles; the
\* node loop slept after an iteration that raised before the sink and after
\* one that invoked the sink, and is about to start a third.
C11_Witness ==
    /\ memory_loop.sleeps = 2
    /\ memory_loop.sinkCalls = 1
    /\ memory_loop.stop = "ValueError"
    /\ node_loop.pc = "start"
    /\ node_loop.sleeps = 2
    /\ node_loop.faults = 1
    /\ node_loop.sinkCalls = 1

\* C12 (checked under SpecNode): a tick of the node loop never stays in its
\* try body past the budget of 30 s: once the time a tick has spent waiting
\* for its sampler, its lookups or its sink exceeds the budget, the tick has
\* been abandoned with the timeout warning logged (or the loop was
\* cancelled), and the loop is in its sleep or beyond.
C12_TickBudget ==
    node_loop.elapsed > Budget =>
        /\ node_loop.pc \notin NodeAwaits
        /\ node_loop.log = "warning" \/ "cancelled" \in {node_loop.pending, node_loop.stop}

\* C13: within each loop the iterations are strictly sequential, however
\* the steps of the other loop fall between them: a step that does work of
\* an iteration (the memory read and the sink call of the memory loop; the
\* sampling, a lookup, the memory read or the sink call of the node loop) is
\* taken only when the sleeps of all earlier iterations have completed, and
\* while a loop is in the try body of iteration N+1 it has completed exactly
\* N sleeps.
C13_SequentialIterations ==
    [][/\ (\/ memory_loop'.iter # memory_loop.iter
           \/ memory_loop'.sinkCalls # memory_loop.sinkCalls
           \/ memory_loop'.readFaults # memory_loop.readFaults) =>
            /\ memory_loop.pc = "tick"
            /\ memory_loop.sleeps = memory_loop'.iter - 1
            /\ memory_loop'.sleeps = memory_loop.sleeps
       /\ memory_loop'.pc = "sink" => memory_loop'.sleeps = memory_loop'.iter - 1
       /\ (\/ node_loop'.iter # node_loop.iter
           \/ node_loop'.sinkCalls # node_loop.sinkCalls
           \/ node_loop'.faults # node_loop.faults
           \/ node_loop'.pc \in NodeAwaits /\ node_loop'.pc # node_loop.pc) =>
            /\ node_loop.pc \in {"start", "metrics", "model", "name"}
            /\ node_loop.sleeps = node_loop'.iter - 1
            /\ node_loop'.sleeps = node_loop.sleeps
       /\ node_loop'.pc \in NodeAwaits => node_loop'.sleeps = node_loop'.iter - 1]_vars

\* C13 witness: both loops are in the work of their second iteration, each
\* with exactly one sleep completed: the memory loop in its sink, the node
\* loop between its two lookups.
C13_Witness ==
    /\ memory_loop.pc = "sink" /\ memory_loop.iter = 2 /\ memory_loop.sleeps = 1
    /\ node_loop.pc = "name" /\ node_loop.iter = 2 /\ node_loop.sleeps = 1

\* the memory profile a read returns when the override and the host memory
\* are as they are in the current state
MemoryNow ==
    [ram_total |-> IF OverrideMb = None THEN hostMemory
                   ELSE OverrideMb[1] * 1024 * 1024]

\* C14: in every tick of the node loop that emits a profile the memory read
\* is the last read and precedes the sink: an iteration starts with no value
\* held; the metrics sample and the network interfaces are held before the
\* first identity lookup is awaited, model and chip before the second; when
\* the sink is entered all four are held and none changes in that step, the
\* memory profile is read in that very step (it is what the override and
\* the host give at that instant), and the profile handed to the sink is
\* made of exactly these values.
C14_NodeStepOrder ==
    [][/\ node_loop'.pc \in {"start", "metrics"} =>
            /\ node_loop'.metrics = None
            /\ node_loop'.network_interfaces = None
            /\ node_loop'.model_id = None
            /\ node_loop'.chip_id = None
            /\ node_loop'.friendly_name = None
            /\ node_loop'.memory_profile = None
       /\ node_loop'.pc = "model" =>
            /\ node_loop'.metrics # None
            /\ node_loop'.network_interfaces # None
            /\ node_loop'.model_id = None
            /\ node_loop'.memory_profile = None
       /\ node_loop'.pc = "name" =>
            /\ node_loop'.metrics = node_loop.metrics
            /\ node_loop'.network_interfaces = node_loop.network_interfaces
            /\ node_loop'.metrics # None
            /\ node_loop'.model_id # None
            /\ node_loop'.chip_id # None
            /\ node_loop'.friendly_name = None
            /\ node_loop'.memory_profile = None
       /\ (node_loop'.pc = "sink" /\ node_loop.pc # "sink") =>
            /\ node_loop.pc = "name"
            /\ node_loop.metrics # None
            /\ node_loop.network_interfaces # None
            /\ node_loop.model_id # None
            /\ node_loop.chip_id # None
            /\ node_loop.memory_profile = None
            /\ node_loop'.memory_profile = Some(MemoryNow)
            /\ node_loop'.arg =
                 Some([model_id |-> node_loop.model_id[1],
                       chip_id |-> node_loop.chip_id[1],
                       friendly_name |-> node_loop'.friendly_name[1],
                       network_interfaces |-> node_loop.network_interfaces[1],
                       memory |-> MemoryNow,
                       system |-> [gpu_usage |-> node_loop.metrics[1].gpu_usage[2],
                                   temp |-> node_loop.metrics[1].temp.gpu_temp_avg,
                                   sys_power |-> node_loop.metrics[1].sys_power,
                                   pcpu_usage |-> node_loop.metrics[1].pcpu_usage[2],
                                   ecpu_usage |-> node_loop.metrics[1].ecpu_usage[2],
                                   ane_power |-> node_loop.metrics[1].ane_power]])]_vars

\* C14 witness: the second tick entered the sink on the native platform
\* with the identity of the host, after the override was set to 12 MB: the
\* profile carries the native sample's figures and the memory read last.
C14_Witness ==
    /\ node_loop.pc = "sink"
    /\ node_loop.iter = 2
    /\ node_loop.sinkCalls = 2
    /\ node_loop.arg # None
    /\ node_loop.arg[1].model_id = "Mac15,9"
    /\ node_loop.arg[1].chip_id = "Apple M3 Max"
    /\ node_loop.arg[1].system.gpu_usage = 55
    /\ node_loop.arg[1].memory = [ram_total |-> 12 * 1024 * 1024]
    /\ hostMemory = 8 * 1024 * 1024

\* C15: the two loops are not synchronized. Whether a loop can take its
\* next step depends on that loop alone: at the top of an iteration it can
\* start it, at an await the awaited call can return, in its sleep the
\* sleep can end, whatever the other loop is doing. So whenever the memory
\* loop is about to read memory while the node loop is about to make its
\* own memory read, either read can be taken first, and it leaves the other
\* loop where it was, its read still to come: both orders are reachable.
C15_NoCrossLoopOrdering ==
    /\ memory_loop.pc = "tick" /\ memory_loop.iter < MaxTicks =>
          ENABLED (\E sampler \in {"ok", "MacMonError"} : MemTick(sampler))
    /\ memory_loop.pc = "sink" => ENABLED MemSinkDone("ok")
    /\ memory_loop.pc = "sleep" => ENABLED MemSleepDone
    /\ node_loop.pc = "start" /\ node_loop.iter < MaxTicks => ENABLED NodeStart
    /\ node_loop.pc = "metrics" =>
          ENABLED (\E got \in MetricsOutcomes(platformName) : NodeMetricsDone(got, "ok"))
    /\ node_loop.pc = "model" =>
          ENABLED (\E mc \in ModelsAndChips : NodeModelDone("ok", mc))
    /\ node_loop.pc = "name" => ENABLED NodeNameDone("ok", "ok")
    /\ node_loop.pc = "sink" => ENABLED NodeSinkDone("ok")
    /\ node_loop.pc = "sleep" => ENABLED NodeSleepDone
    /\ (memory_loop.pc = "tick" /\ memory_loop.iter < MaxTicks /\ node_loop.pc = "name") =>
          /\ ENABLED (MemTick("ok") /\ node_loop'.pc = "name"
                        /\ memory_loop'.iter = memory_loop.iter + 1)
          /\ ENABLED (NodeNameDone("ok", "ok") /\ memory_loop'.pc = "tick"
                        /\ memory_loop'.iter = memory_loop.iter)

\* C15 witness: in the second tick of the node loop its memory read and the
\* memory loop's second read are both about to be taken, neither before the
\* other.
C15_Witness ==
    /\ memory_loop.pc = "tick" /\ memory_loop.iter = 1 /\ memory_loop.sleeps = 1
    /\ node_loop.pc = "name" /\ node_loop.iter = 2

(***************************************************************************)
(* Claims about the generic sampler and the fallback tick, checked under   *)
(* SpecNode.                                                               *)
(***************************************************************************)
\* the positions <<group, index>> of the readings that carry a current value
ValuedReadings(groups) ==
    UNION {{<<g, i>> : i \in {j \in DOMAIN groups[g] : groups[g][j] # None}} :
              g \in DOMAIN groups}

RECURSIVE SumAt(_, _)
\* the sum of the current values at the given positions
SumAt(groups, S) ==
    IF S = {} THEN 0
    ELSE LET x == CHOOSE y \in S : TRUE
         IN  groups[x[1]][x[2]][1] + SumAt(groups, S \ {x})

\* m is the arithmetic mean of the current values of all readings of all
\* groups, and 0.0 when there is none
IsMeanOf(m, groups) ==
    LET S == ValuedReadings(groups)
    IN  IF S = {} THEN m = Zero
        ELSE /\ m.den > 0
             /\ m.num * Cardinality(S) = SumAt(groups, S) * m.den

\* the step in which get_metrics_async returns to the node loop on a
\* platform that is not darwin
FallbackSampled ==
    /\ Lower(platformName) # "darwin"
    /\ node_loop.pc = "metrics"
    /\ node_loop'.pc # "metrics"
    /\ ~NodeCancelled

\* C16: whatever groups of readings the sensors report, the generic sampler
\* returns a sample whose cpu_temp_avg and gpu_temp_avg both equal the
\* arithmetic mean of the current values of all readings of all groups; when
\* no reading carries a value, or the sensor call raises NotImplementedError
\* or psutil.Error, both are 0.0; and in none of these cases does the
\* sampler raise.
C16_FallbackTemperature ==
    [][(FallbackSampled
          /\ hostSensors.kind \in {"ok", "NotImplementedError", "psutil.Error"}) =>
            /\ node_loop'.raised \notin {"NotImplementedError", "psutil.Error",
                                         "AttributeError"}
            /\ ~node_loop'.absent
            /\ node_loop'.pc = "model" =>
                 LET temp == node_loop'.metrics[1].temp
                 IN  /\ temp.cpu_temp_avg = temp.gpu_temp_avg
                     /\ hostSensors.kind = "ok" =>
                           IsMeanOf(temp.cpu_temp_avg, hostSensors.temps)
                     /\ hostSensors.kind # "ok" => temp.cpu_temp_avg = Zero]_vars

\* C16 witness: the sensors report two groups, one reading without a value;
\* the sample the node loop holds has both temperatures at 40, the mean of
\* 50, 30 and 40.
C16_Witness ==
    /\ platformName = "Linux"
    /\ node_loop.pc = "model"
    /\ hostSensors = [kind |-> "ok",
                      temps |-> << <<Some(50)>>, <<None, Some(30), Some(40)>> >>]
    /\ node_loop.metrics[1].temp = [cpu_temp_avg |-> Quotient(40, 1),
                                    gpu_temp_avg |-> Quotient(40, 1)]

\* the sensors are absent: they report no reading, or the sensor call
\* raises NotImplementedError or psutil.Error
AbsentSensors ==
    {s \in SensorOutcomes :
        \/ s.kind \in {"NotImplementedError", "psutil.Error"}
        \/ s.kind = "ok" /\ s.temps = <<>>}

\* logicalCpuCount as the sampler reports it: 0 when psutil cannot tell
LogicalCpuCount == IF hostCpuCount = None THEN 0 ELSE hostCpuCount[1]

\* the step in which the node loop enters its sink on a platform that is
\* not darwin, with the override unset
FallbackEmits ==
    /\ Lower(platformName) # "darwin"
    /\ overrideEnv = None
    /\ node_loop.pc = "name"
    /\ node_loop'.pc = "sink"

\* C17 as stated: in the fallback tick with the override unset and the
\* sensors absent, the SystemPerformanceProfile handed to the sink has its
\* power fields and its temperature at 0 and its pcpu_usage equal to the
\* pair (logicalCpuCount, currentCpuPercent) the sample carries.
C17_FallbackTickAsStated ==
    [][(FallbackEmits /\ hostSensors \in AbsentSensors
           /\ node_loop.metrics[1].temp.gpu_temp_avg = Zero) =>
          LET system == node_loop'.arg[1].system
          IN  /\ system.sys_power = 0
              /\ system.ane_power = 0
              /\ system.temp = Zero
              /\ system.pcpu_usage \notin Int
              /\ system.pcpu_usage = node_loop.metrics[1].pcpu_usage]_vars

\* C17, amended: on a platform that is not darwin the sampling step never
\* yields Absent, and with the sensors absent the sample it returns has all
\* seven power fields at 0, pcpu_usage equal to the pair (logicalCpuCount,
\* currentCpuPercent), gpu_usage and ecpu_usage at (0, 0), both
\* temperatures at 0.0 and an empty timestamp. When the lookups and the
\* memory read of the tick succeed, the profile handed to the sink carries,
\* with the override unset, the memory the host has, and as its system part
\* the projection of that sample: sys_power, ane_power, gpu_usage and
\* ecpu_usage 0, temp the sample's gpu temperature, and pcpu_usage the
\* percentage alone (the second component of the sample's pair), not the
\* pair.
C17_FallbackTick ==
    [][/\ FallbackSampled => ~node_loop'.absent
       /\ (FallbackSampled /\ hostSensors \in AbsentSensors) =>
            /\ node_loop'.raised \notin {"NotImplementedError", "psutil.Error"}
            /\ node_loop'.pc = "model" =>
                 node_loop'.metrics =
                   Some([all_power |-> 0, ane_power |-> 0, cpu_power |-> 0,
                         gpu_power |-> 0, gpu_ram_power |-> 0, ram_power |-> 0,
                         sys_power |-> 0,
                         ecpu_usage |-> <<0, 0>>, gpu_usage |-> <<0, 0>>,
                         pcpu_usage |-> <<LogicalCpuCount, hostCpuPercent>>,
                         temp |-> [cpu_temp_avg |-> Zero, gpu_temp_avg |-> Zero],
                         timestamp |-> ""])
       /\ FallbackEmits =>
            /\ node_loop'.arg[1].memory = [ram_total |-> hostMemory]
            /\ node_loop'.arg[1].system =
                 [gpu_usage |-> 0,
                  temp |-> node_loop.metrics[1].temp.gpu_temp_avg,
                  sys_power |-> 0,
                  pcpu_usage |-> node_loop.metrics[1].pcpu_usage[2],
                  ecpu_usage |-> 0,
                  ane_power |-> 0]
            /\ node_loop'.arg[1].system.pcpu_usage \in CpuPercents]_vars

\* C17 witness: on Linux, with the override unset, 8 logical processors at
\* 37 percent and a sensor call that raises NotImplementedError, the first
\* tick is in its sink: the sample holds the pair (8, 37) and zero
\* temperatures, the profile handed over holds 37 and zeros.
C17_Witness ==
    /\ platformName = "Linux"
    /\ overrideEnv = None
    /\ hostSensors = [kind |-> "NotImplementedError", temps |-> <<>>]
    /\ hostCpuCount = Some(8)
    /\ hostCpuPercent = 37
    /\ node_loop.pc = "sink"
    /\ node_loop.iter = 1
    /\ node_loop.metrics[1].pcpu_usage = <<8, 37>>
    /\ node_loop.arg[1].system =
          [gpu_usage |-> 0, temp |-> Zero, sys_power |-> 0, pcpu_usage |-> 37,
           ecpu_usage |-> 0, ane_power |-> 0]

(***************************************************************************)
(* Further claims about the polling loops, checked under Spec.             *)
(***************************************************************************)
\* C18: the return of the node loop on a missing sample is not immediate.
\* The step in which get_metrics_async returns None puts the loop into the
\* sleep of finally with the return pending, not into Stopped; the loop is
\* Stopped by that return only by the step that ends this sleep, which is a
\* full sleep counted like any other; and while the loop is in that sleep
\* the caller can still cancel it, which stops it as cancelled.
C18_AbsentExitSleeps ==
    [][/\ (node_loop'.absent /\ ~node_loop.absent) =>
            /\ node_loop.pc = "metrics"
            /\ node_loop'.pc = "sleep"
            /\ node_loop'.pending = "return"
            /\ node_loop'.stop = "none"
            /\ node_loop'.sleeps = node_loop.sleeps
       /\ (node_loop'.stop = "return" /\ node_loop.stop # "return") =>
            /\ node_loop.absent
            /\ node_loop.pc = "sleep"
            /\ node_loop.pending = "return"
            /\ node_loop'.sleeps = node_loop.sleeps + 1
            /\ node_loop'.sleeps = node_loop.iter
       /\ (node_loop.absent /\ node_loop.pc = "sleep") =>
            /\ ENABLED NodeSleepDone
            /\ ENABLED NodeCancel(TRUE)
            /\ node_loop'.pc \in {"sleep", "stopped"}
            /\ node_loop'.pc = "stopped" => node_loop'.stop \in {"return", "cancelled"}]_vars

\* C18 witness: the sample was missing in the first iteration and the loop
\* was cancelled during the sleep that followed, before it could return.
C18_Witness ==
    /\ node_loop.absent
    /\ node_loop.iter = 1
    /\ node_loop.sleeps = 0
    /\ node_loop.pc = "stopped"
    /\ node_loop.stop = "cancelled"

\* the fields of the record the node loop hands to its sink
ProfileFields ==
    {"model_id", "chip_id", "friendly_name", "network_interfaces", "memory", "system"}

\* C19: each loop invokes its sink at most once per iteration and only when
\* every read of the iteration has succeeded. Every started iteration
\* accounts for at most one of: a sink invocation, a read or lookup that
\* raised, a missing sample. The step that invokes the sink belongs to an
\* iteration in which nothing has raised and which has not invoked the sink
\* before, and it hands over a complete record: the memory profile just
\* read, and for the node loop all six fields, made of values that are all
\* held. A step in which a read or a lookup raises invokes no sink and
\* leaves the loop in its sleep, no record handed over.
C19_SinkOnlyAfterReads ==
    [][/\ memory_loop'.sinkCalls + memory_loop'.readFaults = memory_loop'.iter
       /\ node_loop'.sinkCalls + node_loop'.faults
             + (IF node_loop'.absent THEN 1 ELSE 0) <= node_loop'.iter
       /\ memory_loop'.sinkCalls # memory_loop.sinkCalls =>
            /\ memory_loop'.sinkCalls = memory_loop.sinkCalls + 1
            /\ memory_loop'.iter = memory_loop.iter + 1
            /\ memory_loop'.readFaults = memory_loop.readFaults
            /\ memory_loop'.raised = "none"
            /\ memory_loop'.pc = "sink"
            /\ memory_loop'.arg # None
            /\ DOMAIN memory_loop'.arg[1] = {"ram_total"}
            /\ memory_loop'.arg[1].ram_total \in Nat
       /\ memory_loop'.readFaults # memory_loop.readFaults =>
            /\ memory_loop'.sinkCalls = memory_loop.sinkCalls
            /\ memory_loop'.raised # "none"
            /\ memory_loop'.pc = "sleep"
            /\ memory_loop'.inFlight = 0
       /\ memory_loop'.pc # "sink" => memory_loop'.arg = None
       /\ node_loop'.sinkCalls # node_loop.sinkCalls =>
            /\ node_loop'.sinkCalls = node_loop.sinkCalls + 1
            /\ node_loop'.sinkCalls + node_loop'.faults = node_loop'.iter
            /\ node_loop'.iter = node_loop.iter
            /\ node_loop.raised = "none"
            /\ node_loop'.raised = "none"
            /\ node_loop'.pc = "sink"
            /\ node_loop.metrics # None
            /\ node_loop.network_interfaces # None
            /\ node_loop.model_id # None
            /\ node_loop.chip_id # None
            /\ node_loop'.friendly_name # None
            /\ node_loop'.memory_profile # None
            /\ node_loop'.arg # None
            /\ DOMAIN node_loop'.arg[1] = ProfileFields
            /\ node_loop'.arg[1].memory = node_loop'.memory_profile[1]
       /\ node_loop'.faults # node_loop.faults =>
            /\ node_loop'.sinkCalls = node_loop.sinkCalls
            /\ node_loop'.raised # "none"
            /\ node_loop'.pc = "sleep"
            /\ node_loop'.inFlight = 0
       /\ node_loop'.pc # "sink" => node_loop'.arg = None]_vars

\* C19 witness: in each loop the first iteration raised in a read and
\* invoked no sink, and the second iteration, all of its reads done, is in
\* its sink.
C19_Witness ==
    /\ memory_loop.pc = "sink" /\ memory_loop.iter = 2
    /\ memory_loop.readFaults = 1 /\ memory_loop.sinkCalls = 1
    /\ node_loop.pc = "sink" /\ node_loop.iter = 2
    /\ node_loop.faults = 1 /\ node_loop.sinkCalls = 1

\* C20: in each loop the memory read and the entry into the sink of the
\* same iteration are one step. A loop is never between the two: it holds a
\* memory profile only while it is in its sink. The step that enters a sink
\* hands over the memory profile that the override and the host give in the
\* state the step starts from, and it leaves the other loop as it was; so
\* no change of the override, no memory read and no sink invocation of the
\* other loop falls between a loop's memory read and its sink.
C20_ReadAndSinkOneStep ==
    [][/\ memory_loop'.arg # None =>
            memory_loop'.pc = "sink" /\ memory_loop'.inFlight = 1
       /\ node_loop'.memory_profile # None =>
            node_loop'.pc = "sink" /\ node_loop'.inFlight = 1
       /\ memory_loop'.sinkCalls # memory_loop.sinkCalls =>
            /\ memory_loop.pc = "tick"
            /\ memory_loop.arg = None
            /\ memory_loop'.arg = Some(MemoryNow)
            /\ node_loop' = node_loop
            /\ overrideEnv' = overrideEnv
       /\ node_loop'.sinkCalls # node_loop.sinkCalls =>
            /\ node_loop.pc = "name"
            /\ node_loop.memory_profile = None
            /\ node_loop'.memory_profile = Some(MemoryNow)
            /\ node_loop'.arg[1].memory = MemoryNow
            /\ memory_loop' = memory_loop
            /\ overrideEnv' = overrideEnv]_vars

\* C20 witness: the override was 12 MB when the memory loop read and
\* entered its sink, and unset when the node loop read and entered its own;
\* each sink holds what its loop read in the step that entered it.
C20_Witness ==
    /\ memory_loop.pc = "sink"
    /\ memory_loop.arg = Some([ram_total |-> 12 * 1024 * 1024])
    /\ node_loop.pc = "sink"
    /\ node_loop.memory_profile = Some([ram_total |-> hostMemory])
    /\ node_loop.arg[1].memory = [ram_total |-> hostMemory]
    /\ overrideEnv = None

=============================================================================
